---------------------------- MODULE Spec2Model ----------------------------
(***************************************************************************)
(* Fantasy-basketball draft assistant (src/agent.py, src/bot.py).          *)
(*                                                                         *)
(* The model follows the in-memory draft tracker: DraftState, the          *)
(* orchestrator operations of MistralAgent (start_draft,                   *)
(* update_draft_pick, _get_players) and the chat commands of bot.py that   *)
(* call them (draft, pick).  Player names and position tokens are          *)
(* sequences of one-character strings, so that lower(), upper(), title(),  *)
(* split(), strip() and the substring test are computed as Python          *)
(* computes them.                                                          *)
(***************************************************************************)
EXTENDS Integers, Sequences, FiniteSets, TLC

(***************************************************************************)
(* Bounds of the model.                                                    *)
(***************************************************************************)
\* The draft command is tried with up to MaxRounds rounds and MaxPlayers
\* teams, in drafts of at most MaxTotalPicks picks; the pick command with the
\* pick numbers 0..MaxPickNum.
MaxRounds == 2
MaxPlayers == 3
MaxTotalPicks == 4
MaxPickNum == 3

(***************************************************************************)
(* Python string operations.                                               *)
(***************************************************************************)
Uppers == <<"A","B","C","D","E","F","G","H","I","J","K","L","M",
            "N","O","P","Q","R","S","T","U","V","W","X","Y","Z">>
Lowers == <<"a","b","c","d","e","f","g","h","i","j","k","l","m",
            "n","o","p","q","r","s","t","u","v","w","x","y","z">>

IsUpper(c) == \E i \in 1..Len(Uppers) : Uppers[i] = c
IsLower(c) == \E i \in 1..Len(Lowers) : Lowers[i] = c
IsCased(c) == IsUpper(c) \/ IsLower(c)
IsSpace(c) == c = " "

LowerChar(c) ==
    IF IsUpper(c) THEN Lowers[CHOOSE i \in 1..Len(Uppers) : Uppers[i] = c] ELSE c
UpperChar(c) ==
    IF IsLower(c) THEN Uppers[CHOOSE i \in 1..Len(Lowers) : Lowers[i] = c] ELSE c

\* str.lower()
Lower(s) == [i \in 1..Len(s) |-> LowerChar(s[i])]
\* str.upper()
Upper(s) == [i \in 1..Len(s) |-> UpperChar(s[i])]
\* str.title(): a cased character is upper-cased when it starts the string
\* or follows an uncased character, and lower-cased otherwise.
Title(s) ==
    [i \in 1..Len(s) |->
        IF i = 1 \/ ~IsCased(s[i-1]) THEN UpperChar(s[i]) ELSE LowerChar(s[i])]

\* a in b, for two strings: a is a contiguous substring of b.
IsSubstr(a, b) ==
    \E i \in 0..(Len(b) - Len(a)) : \A j \in 1..Len(a) : b[i + j] = a[j]

\* x in xs, for a list xs.
InList(x, xs) == \E i \in 1..Len(xs) : xs[i] = x

RECURSIVE SplitAcc(_, _, _)
SplitAcc(s, cur, acc) ==
    IF s = <<>>
    THEN IF cur = <<>> THEN acc ELSE Append(acc, cur)
    ELSE IF IsSpace(Head(s))
         THEN SplitAcc(Tail(s), <<>>, IF cur = <<>> THEN acc ELSE Append(acc, cur))
         ELSE SplitAcc(Tail(s), Append(cur, Head(s)), acc)
\* str.split(): the maximal runs of non-whitespace characters.
Split(s) == SplitAcc(s, <<>>, <<>>)

RECURSIVE LStrip(_)
LStrip(s) == IF s # <<>> /\ IsSpace(Head(s)) THEN LStrip(Tail(s)) ELSE s
RECURSIVE RStrip(_)
RStrip(s) ==
    IF s # <<>> /\ IsSpace(s[Len(s)]) THEN RStrip(SubSeq(s, 1, Len(s) - 1)) ELSE s
\* str.strip()
Strip(s) == RStrip(LStrip(s))

RECURSIVE JoinSpace(_)
\* ' '.join(parts)
JoinSpace(parts) ==
    IF parts = <<>> THEN <<>>
    ELSE IF Len(parts) = 1 THEN parts[1]
    ELSE parts[1] \o <<" ">> \o JoinSpace(Tail(parts))

\* list.remove(x): the list without the first occurrence of x.
RemoveFirst(xs, x) ==
    LET i == CHOOSE k \in 1..Len(xs) : xs[k] = x /\ \A m \in 1..(k - 1) : xs[m] # x
    IN  SubSeq(xs, 1, i - 1) \o SubSeq(xs, i + 1, Len(xs))

(***************************************************************************)
(* Position, and Python's None.                                            *)
(***************************************************************************)
None == <<"None">>

PG == <<"P","G">>
SG == <<"S","G">>
SF == <<"S","F">>
PF == <<"P","F">>
C == <<"C">>
G == <<"G">>
F == <<"F">>
UTIL == <<"U","T","I","L">>

\* The member names of the enum Position.
Position == {PG, SG, SF, PF, C, G, F, UTIL}


(***************************************************************************)
(* Program constants and the inputs the model draws from.                  *)
(***************************************************************************)
\* The time-to-live of the player directory cache, in seconds.
CacheTTL == 3600

\* The channels of the chat server.
Channels == {1, 2}
\* The channels whose commands the specification Spec explores.
SpecChannels == {1}

\* The ranking page, as fetch_players_list returns it: the items of
\* players_map in insertion (ranking) order, each a player name and the
\* player's stats, of which the model keeps the cell under the header RANK
\* (None when the row has no such cell).  "Bo" is a one-word name that is
\* also a word of a better-ranked name.
BoAl == <<"B","o"," ","A","l">>
Bo == <<"B","o">>
CyDu == <<"C","y"," ","D","u">>
Directory ==
    << <<BoAl, [RANK |-> <<"1">>]>>,
       <<Bo, [RANK |-> <<"2">>]>>,
       <<CyDu, [RANK |-> <<"-">>]>> >>

\* The page as it reads after the ranking has moved.
Reranked ==
    << <<CyDu, [RANK |-> None]>>,
       <<BoAl, [RANK |-> <<"2">>]>> >>

\* What a fetch of the ranking page can return: the empty mapping on any
\* failure, or the page's players.
FetchResults == {<<>>, Directory}
\* The same, over a time in which the ranking moves.
FetchResultsOverTime == {<<>>, Directory, Reranked}

\* Mutant of Names: the last item is left out.
NamesButLast(players_with_stats) ==
    [i \in 1..(Len(players_with_stats) - 1) |-> players_with_stats[i][1]]

\* [player[0] for player in players_with_stats.items()]
Names(players_with_stats) ==
    [i \in 1..Len(players_with_stats) |-> players_with_stats[i][1]]

\* Player names as a user types them after the pick number.
TypedNames == {Bo, <<"c","y">>, <<"e","D">>}
\* The arguments typed after the player name.
TypedArgs == {<<>>, << <<"p","g">> >>, << <<"x">> >>}

\* The arguments the draft command is tried with: every combination the
\* command refuses, and every one it accepts whose draft has at most
\* MaxTotalPicks picks.
DraftRequests ==
    {rq \in (0..MaxRounds) \X (0..MaxPlayers) \X (1..MaxPlayers) :
        rq[1] * rq[3] <= MaxTotalPicks}

(***************************************************************************)
(* DraftState                                                              *)
(***************************************************************************)
\* DraftState.__init__
NewDraftState(total_rounds, pick_position, total_players) ==
    [total_rounds |-> total_rounds,
     pick_position |-> pick_position,
     total_players |-> total_players,
     current_round |-> 1,
     picks_made |-> 0,
     drafted_players |-> <<>>,
     my_team |-> <<>>,
     available_players |-> <<>>,
     is_active |-> FALSE]

\* DraftState.is_user_turn
is_user_turn(ds) ==
    LET current_pick == (ds.picks_made % ds.total_players) + 1
    IN  current_pick = ds.pick_position

\* roster_requirements, the items of the dict in insertion order.
roster_requirements ==
    << <<PG, 2>>, <<SG, 2>>, <<SF, 2>>, <<PF, 2>>, <<C, 2>>, <<UTIL, 3>> >>

RECURSIVE CurrentRoster(_, _)
\* "Count current roster by position": current_roster after the first k
\* entries of my_team, a defaultdict(int) read as a function that is 0 where
\* nothing was counted.
CurrentRoster(my_team, k) ==
    IF k = 0 THEN [pos \in Position \cup {None} |-> 0]
    ELSE [CurrentRoster(my_team, k - 1) EXCEPT ![my_team[k][2]] = @ + 1]

\* max(a, b)
Max(a, b) == IF a >= b THEN a ELSE b

\* Mutant of get_roster_needs: the difference is not floored at 0.
RosterNeedsUnfloored(ds) ==
    LET current_roster == CurrentRoster(ds.my_team, Len(ds.my_team))
    IN  [pos \in {roster_requirements[i][1] : i \in 1..Len(roster_requirements)} |->
            LET req == (CHOOSE i \in 1..Len(roster_requirements) :
                            roster_requirements[i][1] = pos)
            IN  roster_requirements[req][2] - current_roster[pos]]

\* DraftState.get_roster_needs
get_roster_needs(ds) ==
    LET current_roster == CurrentRoster(ds.my_team, Len(ds.my_team))
    IN  [pos \in {roster_requirements[i][1] : i \in 1..Len(roster_requirements)} |->
            LET req == (CHOOSE i \in 1..Len(roster_requirements) :
                            roster_requirements[i][1] = pos)
            IN  Max(0, roster_requirements[req][2] - current_roster[pos])]

\* DraftState.update_draft
update_draft(ds, drafted_player, position) ==
    LET s1 == [ds EXCEPT !.picks_made = @ + 1]
        s2 == IF InList(drafted_player, s1.available_players)
              THEN [s1 EXCEPT !.available_players = RemoveFirst(@, drafted_player)]
              ELSE s1
        s3 == [s2 EXCEPT !.drafted_players = Append(@, <<drafted_player, position>>)]
        s4 == IF is_user_turn(s3)
              THEN [s3 EXCEPT !.my_team = Append(@, <<drafted_player, position>>)]
              ELSE s3
        s5 == [s4 EXCEPT !.current_round = (s4.picks_made \div s4.total_players) + 1]
    IN  IF s5.picks_made >= s5.total_players * s5.total_rounds
        THEN [s5 EXCEPT !.is_active = FALSE]
        ELSE s5

(***************************************************************************)
(* MistralAgent.update_draft_pick, piece by piece.                         *)
(***************************************************************************)
\* Python's truth value of an Optional[str]: None and "" are false.
Truthy(str) == str # None /\ str # <<>>

\* Mutant of IsUserPick: the pick number is compared one slot too far.
IsUserPickNextSlot(ds, pick_num) == pick_num = ds.pick_position + 1

\* "Calculate if this pick corresponds to the user's position"
IsUserPick(ds, pick_num) == pick_num = ds.pick_position

RECURSIVE BestMatchFrom(_, _, _, _)
\* The loop over draft_state.available_players, from index i on, with the
\* best match found so far.
BestMatchFrom(player_name, available_players, i, best_match) ==
    IF i > Len(available_players) THEN best_match
    ELSE LET player == available_players[i]
             b1 == IF IsSubstr(Lower(player_name), Lower(player))
                      /\ (best_match = None \/ Len(player) < Len(best_match))
                   THEN player
                   ELSE best_match
             player_parts == Split(Lower(player))
         IN  IF InList(Lower(player_name), player_parts)
             THEN player
             ELSE BestMatchFrom(player_name, available_players, i + 1, b1)

\* "Find the best matching player in available players"
FindBestMatch(player_name, available_players) ==
    BestMatchFrom(player_name, available_players, 1, None)

\* The name recorded when no pool entry matched.
FallbackName(player_name) == Title(player_name)

\* Mutant of RoundOfPick: the round of the next pick, as update_draft has it.
RoundOfNextPick(picks_made, total_players) == (picks_made \div total_players) + 1

\* "Calculate current round (1-based)"
RoundOfPick(picks_made, total_players) == ((picks_made - 1) \div total_players) + 1

\* Mutant of DraftIsComplete: the threshold must be exceeded.
DraftIsCompleteLate(ds) == ds.picks_made > ds.total_players * ds.total_rounds

\* "Check if draft is complete"
DraftIsComplete(ds) == ds.picks_made >= ds.total_players * ds.total_rounds

\* Mutant of PoolAfterPick: the pool is cut at the match.
PoolAfterPickCutsTail(available_players, matched) ==
    IF Truthy(matched)
    THEN SubSeq(available_players, 1,
                (CHOOSE k \in 1..Len(available_players) : available_players[k] = matched) - 1)
    ELSE available_players

\* "Remove the player from available players only if they were in our list"
PoolAfterPick(available_players, matched) ==
    IF Truthy(matched) THEN RemoveFirst(available_players, matched) ELSE available_players

\* "Record the pick and update round"
CountPick(ds) ==
    LET picks_made == ds.picks_made + 1
    IN  [ds EXCEPT !.picks_made = picks_made,
                   !.current_round = RoundOfPick(picks_made, ds.total_players)]

\* Mutant of ListPick: the pick is listed only when it is the user's.
ListPickOnlyOwn(ds, best_match, pos_enum, is_user_pick) ==
    IF is_user_pick
    THEN [ds EXCEPT !.drafted_players = Append(@, <<best_match, pos_enum>>),
                    !.my_team = Append(@, <<best_match, pos_enum>>)]
    ELSE ds

\* "Add to drafted players and user's team if it's their pick"
ListPick(ds, best_match, pos_enum, is_user_pick) ==
    LET s1 == [ds EXCEPT !.drafted_players = Append(@, <<best_match, pos_enum>>)]
    IN  IF is_user_pick
        THEN [s1 EXCEPT !.my_team = Append(@, <<best_match, pos_enum>>)]
        ELSE s1

\* The state changes of a pick that passed every check, and its reply.
RecordPick(ds, matched, player_name, pos_enum, is_user_pick) ==
    LET best_match == IF Truthy(matched) THEN matched ELSE FallbackName(player_name)
        s1 == [ds EXCEPT !.available_players = PoolAfterPick(@, matched)]
        s2 == ListPick(CountPick(s1), best_match, pos_enum, is_user_pick)
    IN  IF DraftIsComplete(s2)
        THEN [state |-> [s2 EXCEPT !.is_active = FALSE], result |-> "DraftComplete"]
        ELSE [state |-> s2, result |-> "Recorded"]

\* Mutant of update_draft_pick: the player is matched and taken from the pool
\* before the position is checked.
UpdateDraftPickMatchesFirst(ds, pick_num, player_name, position) ==
    LET matched == FindBestMatch(player_name, ds.available_players)
        s1 == [ds EXCEPT !.available_players = PoolAfterPick(@, matched)]
    IN  IF pick_num < 1 THEN [state |-> ds, result |-> "PickNumberNotPositive"]
        ELSE IF ~Truthy(player_name) THEN [state |-> ds, result |-> "NameRequired"]
        ELSE IF IsUserPick(ds, pick_num) /\ ~Truthy(position)
             THEN [state |-> s1, result |-> "PositionRequired"]
        ELSE IF Truthy(position) /\ position \notin Position
             THEN [state |-> s1, result |-> "InvalidPosition"]
        ELSE RecordPick(ds, matched, player_name,
                        IF Truthy(position) THEN position ELSE None,
                        IsUserPick(ds, pick_num))

\* MistralAgent.update_draft_pick on the channel's active DraftState ds:
\* the DraftState it leaves and the kind of message it returns.
update_draft_pick(ds, pick_num, player_name, position) ==
    IF pick_num < 1 THEN [state |-> ds, result |-> "PickNumberNotPositive"]
    ELSE IF ~Truthy(player_name) THEN [state |-> ds, result |-> "NameRequired"]
    ELSE IF IsUserPick(ds, pick_num) /\ ~Truthy(position)
         THEN [state |-> ds, result |-> "PositionRequired"]
    ELSE IF Truthy(position) /\ position \notin Position
         THEN [state |-> ds, result |-> "InvalidPosition"]
    ELSE RecordPick(ds,
                    FindBestMatch(player_name, ds.available_players),
                    player_name,
                    IF Truthy(position) THEN position ELSE None,
                    IsUserPick(ds, pick_num))

(***************************************************************************)
(* State.                                                                  *)
(*   draft_states     MistralAgent.draft_states: channel -> DraftState     *)
(*   cached_players   MistralAgent.cached_players (names, ranking order)   *)
(*   last_fetch_time  MistralAgent.last_fetch_time                         *)
(*   now              int(time.time())                                     *)
(*   succeeded        history: per channel, the record-pick requests that  *)
(*                    succeeded since the channel's draft was started      *)
(*   last             history: the last command, the name and position it  *)
(*                    passed to the orchestrator, the kind of its reply    *)
(*   calls            history: the outside calls the last command issued   *)
(*                    ("fetch" of the ranking page, "search", "chat")      *)
(*   ranking          history: sorted_players of the last comparison       *)
(*   responses        the chunks of the last reply that was split          *)
(*   channel_history  MistralAgent.channel_history: channel -> messages    *)
(*   appended         history: per channel, every message _update_history  *)
(*                    was called with, in the order of the calls           *)
(*   starting         the start_draft calls suspended in _get_players,     *)
(*                    waiting for the ranking page                         *)
(*   chatting         the run calls waiting for the language model         *)
(*   resolved         history: what _find_player_match returned, per       *)
(*                    query and directory it was called with               *)
(***************************************************************************)
VARIABLES draft_states, cached_players, last_fetch_time, now, succeeded, last,
          calls, ranking, responses, channel_history, appended, starting, resolved,
          chatting

vars == <<draft_states, cached_players, last_fetch_time, now, succeeded, last,
          calls, ranking, responses, channel_history, appended, starting, resolved,
          chatting>>

\* The state that the draft, pick, compare and read commands leave alone.
other_vars == <<responses, channel_history, appended, starting, resolved, chatting>>

Command(op, ch, name, position, result) ==
    [op |-> op, ch |-> ch, name |-> name, position |-> position, result |-> result]

\* MistralAgent.__init__
Init ==
    /\ draft_states = <<>>
    /\ cached_players = <<>>
    /\ last_fetch_time = 0
    /\ now = CacheTTL + 1
    /\ succeeded = [ch \in Channels |-> 0]
    /\ last = Command("init", 0, <<>>, None, "None")
    /\ calls = {}
    /\ ranking = <<>>
    /\ responses = <<>>
    /\ channel_history = <<>>
    /\ appended = [ch \in Channels |-> <<>>]
    /\ starting = <<>>
    /\ resolved = <<>>
    /\ chatting = <<>>

\* Mutant of Store: a draft that replaces another inherits its list of picks.
StoreKeepsPicks(states, ch, ds) ==
    [c \in (DOMAIN states) \cup {ch} |->
        IF c # ch THEN states[c]
        ELSE IF ch \in DOMAIN states
             THEN [ds EXCEPT !.drafted_players = states[ch].drafted_players]
             ELSE ds]

\* self.draft_states[channel_id] = draft_state
Store(states, ch, ds) ==
    [c \in (DOMAIN states) \cup {ch} |-> IF c = ch THEN ds ELSE states[c]]

\* Mutant of HasActiveDraft: a draft counts as active only until its first pick.
HasActiveDraftUnpicked(ch) ==
    /\ ch \in DOMAIN draft_states
    /\ draft_states[ch].is_active
    /\ draft_states[ch].picks_made = 0

\* Mutant of HasActiveDraft: any draft of the channel counts, running or not.
HasDraft(ch) == ch \in DOMAIN draft_states

\* channel_id in self.draft_states and self.draft_states[channel_id].is_active
HasActiveDraft(ch) == ch \in DOMAIN draft_states /\ draft_states[ch].is_active

\* MistralAgent._get_players(force_refresh): whether the cache answers.
CacheIsFresh(force_refresh) ==
    /\ ~force_refresh
    /\ cached_players # <<>>
    /\ (now - last_fetch_time) <= CacheTTL

\* Mutant of GetPlayersResult: a failed fetch falls back on the old cache.
GetPlayersResultFallsBack(force_refresh, fetched) ==
    IF CacheIsFresh(force_refresh) \/ fetched = <<>> THEN cached_players ELSE fetched

\* MistralAgent._get_players: the players it returns when a fetch would
\* return fetched.
GetPlayersResult(force_refresh, fetched) ==
    IF CacheIsFresh(force_refresh) THEN cached_players ELSE fetched

\* MistralAgent._get_players: what it does to the cache.
GetPlayersEffect(force_refresh, fetched) ==
    IF ~CacheIsFresh(force_refresh) /\ fetched # <<>>
    THEN /\ cached_players' = fetched
         /\ last_fetch_time' = now
    ELSE UNCHANGED <<cached_players, last_fetch_time>>

\* MistralAgent._get_players: the outside calls it issues.
GetPlayersCalls(force_refresh) ==
    IF CacheIsFresh(force_refresh) THEN {} ELSE {"fetch"}

\* The draft command's check of its arguments.
DraftParametersInvalid(rounds, pick_position, total_picks) ==
    rounds < 1 \/ pick_position < 1 \/ total_picks < 2 \/ pick_position > total_picks

\* The command !draft: bot.draft and MistralAgent.start_draft.
Draft(ch, rounds, pick_position, total_picks, fetched) ==
    IF DraftParametersInvalid(rounds, pick_position, total_picks)
    THEN /\ last' = Command("draft", ch, <<>>, None, "InvalidParameters")
         /\ calls' = {}
         /\ UNCHANGED <<draft_states, cached_players, last_fetch_time, now, succeeded,
                        ranking, other_vars>>
    ELSE IF HasActiveDraft(ch)
    THEN /\ last' = Command("draft", ch, <<>>, None, "AlreadyActive")
         /\ calls' = {}
         /\ UNCHANGED <<draft_states, cached_players, last_fetch_time, now, succeeded,
                        ranking, other_vars>>
    ELSE LET players == GetPlayersResult(FALSE, fetched)
             draft_state == [NewDraftState(rounds, pick_position, total_picks)
                                EXCEPT !.available_players = Names(players)]
         IN  /\ GetPlayersEffect(FALSE, fetched)
             /\ calls' = GetPlayersCalls(FALSE)
             /\ UNCHANGED <<now, ranking, other_vars>>
             /\ IF draft_state.available_players = <<>>
                THEN /\ last' = Command("draft", ch, <<>>, None, "DirectoryUnavailable")
                     /\ UNCHANGED <<draft_states, succeeded>>
                ELSE /\ draft_states' =
                            Store(draft_states, ch, [draft_state EXCEPT !.is_active = TRUE])
                     /\ succeeded' = [succeeded EXCEPT ![ch] = 0]
                     /\ last' = Command("draft", ch, <<>>, None, "Started")

\* Mutant of InPlace: the pool is a list shared with the drafts that were
\* seeded with the same names, which all see a player leave it.
InPlaceOnSharedPool(states, ch, ds) ==
    [c \in DOMAIN states |->
        IF c = ch THEN ds
        ELSE IF states[c].available_players = states[ch].available_players
             THEN [states[c] EXCEPT !.available_players = ds.available_players]
             ELSE states[c]]

\* draft_state = self.draft_states[channel_id], and the assignments to the
\* fields of draft_state: the channel's DraftState is changed in place.
InPlace(states, ch, ds) == [states EXCEPT ![ch] = ds]

\* The positions the pick command accepts on the user's turn.
BotPositions == {PG, SG, SF, PF, C, UTIL}

\* bot.pick: the name it passes on, the first word and all but the last of
\* the remaining arguments.
FullPlayerName(player_name, args) ==
    LET player_name_parts == IF args # <<>> THEN SubSeq(args, 1, Len(args) - 1) ELSE <<>>
    IN  Strip(player_name \o <<" ">> \o JoinSpace(player_name_parts))

\* Mutant of BotPosition: the last argument is read as the position on
\* every turn.
BotPositionOnEveryTurn(ds, args) ==
    IF args # <<>> THEN Upper(args[Len(args)]) ELSE None

\* bot.pick: the position it reads from the arguments, on the user's turn.
BotPosition(ds, args) ==
    LET current_pick == (ds.picks_made % ds.total_players) + 1
    IN  IF args # <<>> /\ current_pick = ds.pick_position
        THEN Upper(args[Len(args)])
        ELSE None

\* Whether a reply of update_draft_pick reports a recorded pick.
Succeeded(result) == result \in {"Recorded", "DraftComplete"}

\* The command !pick: bot.pick and MistralAgent.update_draft_pick.
Pick(ch, pick_num, player_name, args) ==
    IF ~HasActiveDraft(ch)
    THEN /\ last' = Command("pick", ch, player_name, None, "NoActiveDraft")
         /\ calls' = {}
         /\ UNCHANGED <<draft_states, cached_players, last_fetch_time, now, succeeded,
                        ranking, other_vars>>
    ELSE LET ds == draft_states[ch]
             position == BotPosition(ds, args)
             name == FullPlayerName(player_name, args)
             r == update_draft_pick(ds, pick_num, name, position)
         IN  IF position # None /\ position \notin BotPositions
             THEN /\ last' = Command("pick", ch, player_name, position,
                                     "InvalidPosition")
                  /\ calls' = {}
                  /\ UNCHANGED <<draft_states, cached_players, last_fetch_time, now,
                                 succeeded, ranking, other_vars>>
             ELSE /\ draft_states' = InPlace(draft_states, ch, r.state)
                  /\ succeeded' = [succeeded EXCEPT
                                      ![ch] = IF Succeeded(r.result) THEN @ + 1 ELSE @]
                  /\ last' = Command("pick", ch, name, position, r.result)
                  /\ calls' = {}
                  /\ UNCHANGED <<cached_players, last_fetch_time, now, ranking, other_vars>>

\* The command !getrec: bot.getrec and MistralAgent.get_draft_recommendation,
\* which reads the channel's DraftState, searches the web for the ten best
\* players of the pool and asks the language model for advice.
GetRec(ch) ==
    /\ IF ~HasActiveDraft(ch)
       THEN /\ last' = Command("getrec", ch, <<>>, None, "NoActiveDraft")
            /\ calls' = {}
       ELSE /\ last' = Command("getrec", ch, <<>>, None, "Recommended")
            /\ calls' = {"search", "chat"}
    /\ UNCHANGED <<draft_states, cached_players, last_fetch_time, now, succeeded,
                   ranking, other_vars>>

\* Mutant of Players: showing the pool of an active draft seeds it again
\* from the directory.
PlayersSeedsThePool(ch, fetched) ==
    LET all_players == GetPlayersResult(FALSE, fetched)
    IN  /\ GetPlayersEffect(FALSE, fetched)
        /\ calls' = GetPlayersCalls(FALSE)
        /\ last' = Command("players", ch, <<>>, None,
                           IF all_players = <<>> THEN "DirectoryUnavailable" ELSE "Shown")
        /\ draft_states' =
                IF HasActiveDraft(ch) /\ all_players # <<>>
                THEN [draft_states EXCEPT ![ch].available_players = Names(all_players)]
                ELSE draft_states
        /\ UNCHANGED <<now, succeeded, ranking, other_vars>>

\* The command !players: bot.players and MistralAgent.show_players, which
\* lists the pool of the channel's active draft, or else the directory.
Players(ch, fetched) ==
    LET all_players == GetPlayersResult(FALSE, fetched)
        players == IF HasActiveDraft(ch)
                   THEN draft_states[ch].available_players
                   ELSE Names(all_players)
    IN  /\ GetPlayersEffect(FALSE, fetched)
        /\ calls' = GetPlayersCalls(FALSE)
        /\ last' = Command("players", ch, <<>>, None,
                           IF players = <<>> THEN "DirectoryUnavailable" ELSE "Shown")
        /\ UNCHANGED <<draft_states, now, succeeded, ranking, other_vars>>

\* The command !myteam: bot.myteam and MistralAgent.show_my_team.
MyTeam(ch, fetched) ==
    IF ch \notin DOMAIN draft_states
    THEN /\ last' = Command("myteam", ch, <<>>, None, "NoDraft")
         /\ calls' = {}
         /\ UNCHANGED <<draft_states, cached_players, last_fetch_time, now, succeeded,
                        ranking, other_vars>>
    ELSE IF ~draft_states[ch].is_active
    THEN /\ last' = Command("myteam", ch, <<>>, None, "DraftEnded")
         /\ calls' = {}
         /\ UNCHANGED <<draft_states, cached_players, last_fetch_time, now, succeeded,
                        ranking, other_vars>>
    ELSE IF draft_states[ch].my_team = <<>>
    THEN /\ last' = Command("myteam", ch, <<>>, None, "TeamEmpty")
         /\ calls' = {}
         /\ UNCHANGED <<draft_states, cached_players, last_fetch_time, now, succeeded,
                        ranking, other_vars>>
    ELSE /\ GetPlayersEffect(FALSE, fetched)
         /\ calls' = GetPlayersCalls(FALSE)
         /\ last' = Command("myteam", ch, <<>>, None, "Shown")
         /\ UNCHANGED <<draft_states, now, succeeded, ranking, other_vars>>

(***************************************************************************)
(* MistralAgent._find_player_match                                         *)
(***************************************************************************)
Digits == <<"0","1","2","3","4","5","6","7","8","9">>
IsDigit(c) == \E i \in 1..Len(Digits) : Digits[i] = c
\* str.isalnum(), of one character
IsAlnum(c) == IsCased(c) \/ IsDigit(c)

RECURSIVE Concat(_)
\* "".join(parts)
Concat(parts) == IF parts = <<>> THEN <<>> ELSE Head(parts) \o Concat(Tail(parts))

\* s.startswith(prefix)
StartsWith(s, prefix) ==
    Len(prefix) <= Len(s) /\ SubSeq(s, 1, Len(prefix)) = prefix

\* normalize_name: the letters, digits and spaces of the name, lower-cased
\* and stripped.
normalize_name(name) ==
    Strip(Lower(SelectSeq(name, LAMBDA c : IsAlnum(c) \/ IsSpace(c))))

\* The "common prefixes to handle" of split_name.
prefixes ==
    << <<"M","c">>, <<"M","a","c">>, <<"D","e">>, <<"V","a","n">>, <<"V","o","n">>,
       <<"S","t">>, <<"O">>, <<"L","e">>, <<"L","a">>, <<"A","l">> >>

RECURSIVE SplitNameFrom(_, _, _, _)
\* The loop of split_name from the i-th character on (1-based), with the
\* parts closed so far and the characters of the current part.
SplitNameFrom(name, i, parts, current) ==
    IF i > Len(name) THEN Append(parts, current)
    ELSE LET char == name[i]
             next_chars == SubSeq(name, i, IF i + 2 <= Len(name) THEN i + 2 ELSE Len(name))
             is_prefix == \E k \in 1..Len(prefixes) :
                              StartsWith(current \o next_chars, prefixes[k])
         IN  IF i > 1 /\ IsUpper(char) /\ ~is_prefix
             THEN SplitNameFrom(name, i + 1, Append(parts, current), <<char>>)
             ELSE SplitNameFrom(name, i + 1, parts, Append(current, char))

\* split_name: a name written without spaces is split before its capitals.
split_name(name) == JoinSpace(SplitNameFrom(name, 1, <<>>, <<>>))

\* The first item of the list among those at the passing indices, or None:
\* the loops over players_map.items() return at their first hit.
FirstItem(items, passing) ==
    IF passing = {} THEN None
    ELSE items[CHOOSE i \in passing : \A k \in passing : i <= k]

RECURSIVE MatchScore(_, _)
\* "Calculate match score": 3 for a search part that is a word of the
\* player's name, 1 for one that is part of a word.
MatchScore(search_parts, player_parts) ==
    IF search_parts = <<>> THEN 0
    ELSE (IF InList(Head(search_parts), player_parts) THEN 3
          ELSE IF \E k \in 1..Len(player_parts) :
                        IsSubstr(Head(search_parts), player_parts[k])
               THEN 1
               ELSE 0)
         + MatchScore(Tail(search_parts), player_parts)

\* MistralAgent._find_player_match: the item (name, stats) of players_map
\* that search_name resolves to, or None.
find_player_match(search_name, players_map) ==
    LET stripped == Strip(search_name)
        spaced == IF ~InList(" ", stripped) THEN split_name(stripped) ELSE stripped
        normalized_search == normalize_name(spaced)
        search_parts == Split(normalized_search)
        no_space_search == Concat(search_parts)
        items == 1..Len(players_map)
        player_parts(i) == Split(normalize_name(players_map[i][1]))
        score(i) == MatchScore(search_parts, player_parts(i))
        exact == {i \in items : normalize_name(players_map[i][1]) = normalized_search}
        first_and_last ==
            {i \in items :
                /\ Len(player_parts(i)) > 1
                /\ IsSubstr(search_parts[1], player_parts(i)[1])
                /\ IsSubstr(search_parts[Len(search_parts)],
                            player_parts(i)[Len(player_parts(i))])}
        no_space == {i \in items : IsSubstr(no_space_search, Concat(player_parts(i)))}
        best_match ==
            {i \in items : score(i) >= 2 /\ \A k \in items : score(k) <= score(i)}
    IN  IF exact # {} THEN FirstItem(players_map, exact)
        ELSE IF Len(search_parts) > 1 /\ first_and_last # {}
             THEN FirstItem(players_map, first_and_last)
        ELSE IF no_space # {} THEN FirstItem(players_map, no_space)
        ELSE FirstItem(players_map, best_match)

(***************************************************************************)
(* MistralAgent.compare_players                                            *)
(***************************************************************************)
\* The names typed after !compare: two that the directory resolves and one
\* that it does not.
Cy == <<"c","y">>
BoTyped == <<"b","o">>
Xx == <<"x">>
ComparedNames == {Cy, BoTyped, Xx}

\* Mutant of Resolution: the name is looked up in the cache, whatever the
\* directory the caller passes.
ResolutionInCache ==
    [player \in ComparedNames, directory \in FetchResultsOverTime |->
        find_player_match(player, cached_players)]

\* _find_player_match, tabulated once over the typed names and the
\* directories of the model.
Resolution ==
    [player \in ComparedNames, directory \in FetchResultsOverTime |->
        find_player_match(player, directory)]

\* int(s): the number a string of decimal digits denotes.
IsInt(s) == s # <<>> /\ \A i \in 1..Len(s) : IsDigit(s[i])
RECURSIVE ParseInt(_)
ParseInt(s) ==
    IF s = <<>> THEN 0
    ELSE 10 * ParseInt(SubSeq(s, 1, Len(s) - 1))
         + ((CHOOSE d \in 1..Len(Digits) : Digits[d] = s[Len(s)]) - 1)

\* "Get numerical rank from stats": int(stats.get('RANK', '999')), and 999
\* when that raises ValueError.
RankOf(stats) ==
    LET cell == IF stats.RANK = None THEN <<"9","9","9">> ELSE stats.RANK
    IN  IF IsInt(cell) THEN ParseInt(cell) ELSE 999

\* The words looked for in the search results.
SeasonWord == <<"s","e","a","s","o","n">>
EndingWord == <<"e","n","d","i","n","g">>
LongTermTerms == <<<<"o","u","t"," ","i","n","d","e","f","i","n","i","t","e","l","y">>,
      <<"o","u","t"," ","f","o","r">>,
      <<"e","x","p","e","c","t","e","d"," ","t","o"," ","m","i","s","s">>,
      <<"s","e","v","e","r","a","l"," ","w","e","e","k","s">>>>
DayToDayTerms == <<<<"d","a","y","-","t","o","-","d","a","y">>,
      <<"q","u","e","s","t","i","o","n","a","b","l","e">>,
      <<"p","r","o","b","a","b","l","e">>>>

\* any(term in text for term in terms)
AnyTermIn(terms, text) == \E k \in 1..Len(terms) : IsSubstr(terms[k], text)

\* player_rankings[player] = entry: a dict keeps the place of a key it has.
PutRanking(player_rankings, entry) ==
    IF \E k \in 1..Len(player_rankings) : player_rankings[k].player = entry.player
    THEN [k \in 1..Len(player_rankings) |->
            IF player_rankings[k].player = entry.player THEN entry ELSE player_rankings[k]]
    ELSE Append(player_rankings, entry)

RECURSIVE MatchRankings(_, _, _)
\* "Get rankings for requested players": player_rankings after the first k
\* of the requested players.
MatchRankings(players, directory, k) ==
    IF k = 0 THEN <<>>
    ELSE LET before == MatchRankings(players, directory, k - 1)
             match == Resolution[players[k], directory]
         IN  IF match # None
             THEN PutRanking(before, [player |-> players[k],
                                      exact_name |-> match[1],
                                      rank |-> RankOf(match[2]),
                                      injury_status |-> "Unknown"])
             ELSE before

\* "Update player's injury status", from the player's search results.
UpdateInjury(entry, search) ==
    IF IsSubstr(SeasonWord, Lower(search.season_ending_result))
       /\ IsSubstr(EndingWord, Lower(search.season_ending_result))
    THEN [entry EXCEPT !.injury_status = "Season-Ending", !.rank = 9999]
    ELSE IF AnyTermIn(LongTermTerms, Lower(search.injury_result))
    THEN [entry EXCEPT !.injury_status = "Long-Term", !.rank = @ + 50]
    ELSE IF AnyTermIn(DayToDayTerms, Lower(search.injury_result))
    THEN [entry EXCEPT !.injury_status = "Day-to-Day"]
    ELSE [entry EXCEPT !.injury_status = "Healthy"]

RECURSIVE AfterSearches(_, _, _, _)
\* An entry of player_rankings after the searches for the first k requested
\* players: each request of the entry's player updates it, in turn.
AfterSearches(entry, players, searches, k) ==
    IF k = 0 THEN entry
    ELSE IF players[k] = entry.player
         THEN UpdateInjury(AfterSearches(entry, players, searches, k - 1), searches[k])
         ELSE AfterSearches(entry, players, searches, k - 1)

\* "Get current injury/news info for each player and update rankings":
\* player_rankings after the loop over the requested players.
UpdateRankings(player_rankings, players, searches) ==
    [i \in 1..Len(player_rankings) |->
        AfterSearches(player_rankings[i], players, searches, Len(players))]

RECURSIVE SortedByRank(_)
\* sorted(..., key=rank): ascending and stable, entries of equal rank keep
\* their order.
SortedByRank(entries) ==
    IF entries = <<>> THEN <<>>
    ELSE LET front == SortedByRank(SubSeq(entries, 1, Len(entries) - 1))
             x == entries[Len(entries)]
             n == Cardinality({i \in 1..Len(front) : front[i].rank <= x.rank})
         IN  SubSeq(front, 1, n) \o <<x>> \o SubSeq(front, n + 1, Len(front))

\* Mutant of TooFewPlayers: one player is enough.
NoPlayers(players) == Len(players) < 1

\* len(players) < 2
TooFewPlayers(players) == Len(players) < 2

\* compare_players' own test of the cache: empty, or older than an hour.
CompareRefresh ==
    cached_players = <<>> \/ (now - last_fetch_time) > CacheTTL

\* The command !compare: bot.compare and MistralAgent.compare_players, a fetch
\* of the page returning fetched and the searches for the k-th requested
\* player returning searches[k].
Compare(players, fetched, searches) ==
    IF TooFewPlayers(players)
    THEN /\ last' = Command("compare", 0, <<>>, None, "InsufficientPlayers")
         /\ calls' = {}
         /\ UNCHANGED <<draft_states, cached_players, last_fetch_time, now, succeeded,
                        ranking, other_vars>>
    ELSE LET refresh == CompareRefresh
             directory == IF refresh THEN fetched ELSE cached_players
             player_rankings ==
                UpdateRankings(MatchRankings(players, directory, Len(players)),
                               players, searches)
         IN  /\ cached_players' = directory
             /\ last_fetch_time' = IF refresh THEN now ELSE last_fetch_time
             /\ ranking' = SortedByRank(player_rankings)
             /\ calls' = (IF refresh THEN {"fetch"} ELSE {}) \cup {"search", "chat"}
             /\ last' = Command("compare", 0, <<>>, None, "Compared")
             /\ UNCHANGED <<draft_states, now, succeeded, other_vars>>

\* A direct call of DraftState.update_draft on the channel's active draft.
UpdateDraft(ch, drafted_player, position) ==
    /\ HasActiveDraft(ch)
    /\ draft_states' =
            [draft_states EXCEPT ![ch] = update_draft(@, drafted_player, position)]
    /\ succeeded' = [succeeded EXCEPT ![ch] = @ + 1]
    /\ last' = Command("update_draft", ch, drafted_player, position, "None")
    /\ calls' = {}
    /\ UNCHANGED <<cached_players, last_fetch_time, now, ranking, other_vars>>

Next ==
    \E ch \in SpecChannels :
        \/ \E rq \in DraftRequests, fetched \in FetchResults :
                Draft(ch, rq[1], rq[2], rq[3], fetched)
        \/ \E pick_num \in 0..MaxPickNum, player_name \in TypedNames, args \in TypedArgs :
                Pick(ch, pick_num, player_name, args)

Spec == Init /\ [][Next]_vars

\* The names and positions update_draft is called with.
DraftedNames == {BoAl, CyDu, <<"E","d">>}
DraftedPositions == {None, PG}

\* Drafts started by the draft command and advanced by update_draft alone.
NextDraftState ==
    \E ch \in SpecChannels :
        \/ \E rq \in DraftRequests, fetched \in FetchResults :
                Draft(ch, rq[1], rq[2], rq[3], fetched)
        \/ \E drafted_player \in DraftedNames, position \in DraftedPositions :
                UpdateDraft(ch, drafted_player, position)

SpecDraftState == Init /\ [][NextDraftState]_vars

\* The clock is advanced at most MaxTicks times.
MaxTicks == 2

\* Time passes: exactly the cache's time-to-live, or one second more.
Tick(seconds) ==
    /\ (now - (CacheTTL + 1)) \div CacheTTL < MaxTicks
    /\ now' = now + seconds
    /\ last' = Command("tick", 0, <<>>, None, "None")
    /\ calls' = {}
    /\ UNCHANGED <<draft_states, cached_players, last_fetch_time, succeeded, ranking, other_vars>>

\* The draft requests of the specification SpecClock: one round of two teams.
ClockRequests == {<<1, 1, 2>>, <<1, 2, 2>>}
\* The pick commands of the specification SpecClock: the pick numbers, the
\* names (one of them the empty string) and the arguments after the name.
ClockPickNums == 0..2
ClockNames == {Bo, <<"c","y">>, <<>>}
ClockArgs == {<<>>, << <<"p","g">> >>, << <<"x">> >>}

\* Drafts started, played and started again while time passes and the
\* ranking page changes or fails.
NextClock ==
    \/ \E ch \in SpecChannels :
        \/ \E rq \in ClockRequests, fetched \in FetchResultsOverTime :
                Draft(ch, rq[1], rq[2], rq[3], fetched)
        \/ \E pick_num \in ClockPickNums, player_name \in ClockNames, args \in ClockArgs :
                Pick(ch, pick_num, player_name, args)
    \/ \E seconds \in {CacheTTL, CacheTTL + 1} : Tick(seconds)

SpecClock == Init /\ [][NextClock]_vars

\* The drafts of the specification SpecRoster have MaxRosterRounds rounds.
MaxRosterRounds == 4

\* The positions typed in the specification SpecRoster.
RosterArgs == {<< <<"p","g">> >>, << <<"u","t","i","l">> >>, << <<"c">> >>}

\* A draft of two teams in which the user picks first, every pick numbered
\* with its slot of the round, and the recommendation asked for at any time.
NextRoster ==
    \E ch \in SpecChannels :
        \/ \E fetched \in FetchResults : Draft(ch, MaxRosterRounds, 1, 2, fetched)
        \/ /\ HasActiveDraft(ch)
           /\ \E args \in RosterArgs :
                Pick(ch, (draft_states[ch].picks_made % 2) + 1, Bo, args)
        \/ GetRec(ch)

SpecRoster == Init /\ [][NextRoster]_vars

\* The lists of names !compare is tried with: none, one, two and three
\* names, a name that resolves to nothing, and a name typed twice.
CompareRequests ==
    {<<>>, <<Cy>>, <<Xx, Xx>>, <<Cy, BoTyped>>, <<BoTyped, Cy>>, <<BoTyped, Xx>>,
     <<Cy, BoTyped, Xx>>, <<Cy, BoTyped, BoTyped>>, <<BoTyped, Cy, Cy>>,
     <<BoTyped, Cy, BoTyped>>}

\* What the searches for a player return: the text of the season-ending
\* search and the text of the injury search.
SeasonEndingText == <<"S","e","a","s","o","n","-","E","n","d","i","n","g">>
OutText == <<"O","u","t"," ","f","o","r"," ","2">>
ProbableText == <<"P","r","o","b","a","b","l","e">>
FitText == <<"F","i","t">>
SearchOutcomes ==
    {[season_ending_result |-> SeasonEndingText, injury_result |-> OutText],
     [season_ending_result |-> FitText, injury_result |-> OutText],
     [season_ending_result |-> FitText, injury_result |-> ProbableText],
     [season_ending_result |-> FitText, injury_result |-> FitText]}

\* Comparisons of players, asked for one after the other.
NextCompare ==
    \E players \in CompareRequests, fetched \in FetchResults :
        \E searches \in [1..Len(players) -> SearchOutcomes] :
            Compare(players, fetched, searches)

SpecCompare == Init /\ [][NextCompare]_vars

\* The commands of the specification SpecIsolation.
IsolationRequests == {<<1, 1, 2>>, <<1, 2, 2>>}
IsolationNames == {Bo, <<"c","y">>}
IsolationArgs == {<<>>, << <<"p","g">> >>}

\* The draft commands and the read commands on every channel of the server.
NextIsolation ==
    \E ch \in Channels :
        \/ \E rq \in IsolationRequests, fetched \in FetchResults :
                Draft(ch, rq[1], rq[2], rq[3], fetched)
        \/ \E pick_num \in 1..2, player_name \in IsolationNames, args \in IsolationArgs :
                Pick(ch, pick_num, player_name, args)
        \/ GetRec(ch)
        \/ \E fetched \in FetchResults : Players(ch, fetched)
        \/ \E fetched \in FetchResults : MyTeam(ch, fetched)

SpecIsolation == Init /\ [][NextIsolation]_vars

\* The example draft: 2 rounds, the user picks third of 4 teams, and the
\* picks are numbered 1, 2, 3, ... in the order they are recorded.
NextExample ==
    \E ch \in SpecChannels :
        \/ \E fetched \in FetchResults : Draft(ch, 2, 3, 4, fetched)
        \/ /\ HasActiveDraft(ch)
           /\ \E player_name \in TypedNames :
                Pick(ch, draft_states[ch].picks_made + 1, player_name, << <<"p","g">> >>)

SpecExample == Init /\ [][NextExample]_vars

(***************************************************************************)
(* Properties of the pick command (update_draft_pick).                     *)
(***************************************************************************)
Drafts == DOMAIN draft_states

\* The slot in the round of the pick recorded k-th, 1-based.
SlotOfPick(ds, k) == ((k - 1) % ds.total_players) + 1

RECURSIVE PicksOnUserTurns(_, _)
\* Of the first k picks of drafted_players, in order, those recorded when
\* the slot of the pick was the user's.
PicksOnUserTurns(ds, k) ==
    IF k = 0 THEN <<>>
    ELSE IF SlotOfPick(ds, k) = ds.pick_position
         THEN Append(PicksOnUserTurns(ds, k - 1), ds.drafted_players[k])
         ELSE PicksOnUserTurns(ds, k - 1)

\* C1: my_team is exactly the ordered subsequence of drafted_players that
\* were recorded on the user's turns, a pick being the user's iff
\* ((picks_made before the pick) mod total_players) + 1 = pick_position,
\* whatever pick number the caller supplied.
C1_MyTeamIsThePicksOnUserTurns ==
    \A ch \in Drafts :
        draft_states[ch].my_team =
            PicksOnUserTurns(draft_states[ch], Len(draft_states[ch].drafted_players))

\* C2: current_round is ((picks_made - 1) div total_players) + 1 once a pick
\* has been recorded, and 1 before the first pick.
C2_CurrentRoundFollowsPicksMade ==
    \A ch \in Drafts :
        LET ds == draft_states[ch]
        IN  ds.current_round =
                IF ds.picks_made >= 1
                THEN ((ds.picks_made - 1) \div ds.total_players) + 1
                ELSE 1

\* C2 witness: a pick of the second round has been recorded, and a draft
\* stands at the last pick of its first round.
C2_Witness ==
    /\ last.op = "pick"
    /\ \E ch \in Drafts :
        /\ draft_states[ch].picks_made > draft_states[ch].total_players
        /\ draft_states[ch].current_round = 2

\* picks_made, the length of drafted_players and the number of successful
\* pick requests since the draft was started agree.
PicksMadeAgrees(states, count) ==
    \A ch \in DOMAIN states :
        /\ states[ch].picks_made = Len(states[ch].drafted_players)
        /\ states[ch].picks_made = count[ch]

\* C3: in every state picks_made = len(drafted_players) = the number of pick
\* requests that succeeded since the draft was started, and a pick request
\* that fails leaves picks_made as it was.
C3_PicksMadeCountsRecordedPicks ==
    /\ PicksMadeAgrees(draft_states, succeeded)
    /\ [][/\ PicksMadeAgrees(draft_states', succeeded')
          /\ (last'.op = "pick" /\ ~Succeeded(last'.result)) =>
                /\ DOMAIN draft_states' = Drafts
                /\ \A ch \in Drafts :
                      draft_states'[ch].picks_made = draft_states[ch].picks_made]_vars

\* C3 witness: a pick request has just failed on a draft that has recorded
\* picks, one of them not the user's.
C3_Witness ==
    /\ last.op = "pick"
    /\ last.result = "PositionRequired"
    /\ \E ch \in Drafts :
        /\ draft_states[ch].picks_made >= 2
        /\ Len(draft_states[ch].my_team) < draft_states[ch].picks_made

\* The number of picks of a whole draft.
TotalPicks(ds) == ds.total_rounds * ds.total_players

\* C4: is_active turns false exactly at the successful pick that brings
\* picks_made to total_rounds * total_players, no active draft has reached
\* that count, and an inactive channel turns active only by a draft command
\* that succeeds on it.
C4_ActiveUntilTheLastPick ==
    [][\A ch \in Channels :
        LET was == ch \in Drafts /\ draft_states[ch].is_active
            is == ch \in DOMAIN draft_states' /\ draft_states'[ch].is_active
        IN  /\ (was /\ ~is) =>
                /\ ch \in DOMAIN draft_states'
                /\ last'.op = "pick" /\ last'.ch = ch /\ Succeeded(last'.result)
                /\ draft_states'[ch].picks_made = TotalPicks(draft_states'[ch])
                /\ draft_states'[ch].picks_made = draft_states[ch].picks_made + 1
            /\ is => draft_states'[ch].picks_made < TotalPicks(draft_states'[ch])
            /\ (~was /\ is) =>
                last'.op = "draft" /\ last'.ch = ch /\ last'.result = "Started"]_vars

\* C4 witness: a draft of two rounds has been completed by its last pick.
C4_Witness ==
    /\ last.result = "DraftComplete"
    /\ \E ch \in Drafts :
        /\ ~draft_states[ch].is_active
        /\ draft_states[ch].total_rounds = 2
        /\ draft_states[ch].picks_made = TotalPicks(draft_states[ch])

(***************************************************************************)
(* The example draft (SpecExample).                                        *)
(***************************************************************************)
\* What the example says of my_team and of is_active: the player of pick 3
\* is the first of my_team, and the draft is active until pick 8 is recorded.
ExampleTeamAndEnd(ds) ==
    /\ ds.picks_made >= 3 =>
        /\ ds.my_team # <<>>
        /\ ds.my_team[1] = ds.drafted_players[3]
    /\ ds.is_active <=> ds.picks_made < 8

\* C5 as stated: pick 3 lands in my_team, current_round is 2 immediately
\* after pick 4 has been recorded, and is_active turns false at the 8th pick.
C5_ExampleAsStated ==
    \A ch \in Drafts :
        /\ ExampleTeamAndEnd(draft_states[ch])
        /\ draft_states[ch].picks_made = 4 => draft_states[ch].current_round = 2

\* C5 amended: pick 3 lands in my_team, current_round is still 1 immediately
\* after pick 4 has been recorded and is 2 from pick 5 on, and is_active turns
\* false at the 8th pick and not before.
C5_Example ==
    \A ch \in Drafts :
        /\ ExampleTeamAndEnd(draft_states[ch])
        /\ draft_states[ch].picks_made = 4 => draft_states[ch].current_round = 1
        /\ draft_states[ch].picks_made >= 5 => draft_states[ch].current_round = 2

\* C5 witness: the eight picks of the example have been recorded.
C5_Witness ==
    \E ch \in Drafts :
        /\ draft_states[ch].total_rounds = 2
        /\ draft_states[ch].pick_position = 3
        /\ draft_states[ch].total_players = 4
        /\ draft_states[ch].picks_made = 8
        /\ ~draft_states[ch].is_active
        /\ draft_states[ch].my_team[1] = draft_states[ch].drafted_players[3]

(***************************************************************************)
(* The pool and the recorded name.                                         *)
(***************************************************************************)
\* The step is a pick command on channel ch that recorded a pick.
PickRecorded(ch) ==
    /\ ch \in Drafts
    /\ draft_states[ch].is_active
    /\ last'.op = "pick"
    /\ last'.ch = ch
    /\ Succeeded(last'.result)

\* The list xs without its i-th element.
Without(xs, i) == SubSeq(xs, 1, i - 1) \o SubSeq(xs, i + 1, Len(xs))

\* The name is, ignoring case, a substring of some name of the pool.
MatchesPool(name, pool) ==
    \E i \in 1..Len(pool) : IsSubstr(Lower(name), Lower(pool[i]))

\* No better-ranked name than pool[k] has the name as a whole word or equals
\* it ignoring case.
Unshadowed(name, pool, k) ==
    \A i \in 1..(k - 1) :
        /\ ~InList(Lower(name), Split(Lower(pool[i])))
        /\ Lower(pool[i]) # Lower(name)

\* The name a recorded pick stored last in drafted_players.
LastDrafted(ds) == ds.drafted_players[Len(ds.drafted_players)][1]

C7_UnmatchedNameIsStoredVerbatim ==
    [][\A ch \in Channels :
        (PickRecorded(ch)
            /\ ~MatchesPool(last'.name, draft_states[ch].available_players)) =>
            LET ds == draft_states'[ch]
            IN  /\ Len(ds.drafted_players) = Len(draft_states[ch].drafted_players) + 1
                /\ LastDrafted(ds) = last'.name
                /\ Len(ds.my_team) > Len(draft_states[ch].my_team) =>
                        ds.my_team[Len(ds.my_team)][1] = last'.name]_vars

\* C8: a pick command without a position on the user's turn, the next slot
\* (picks_made mod total_players) + 1 being pick_position, fails and records
\* nothing; and no entry of my_team has the position None.
C8_PositionRequiredOnUserTurn ==
    /\ [][\A ch \in Channels :
            (/\ ch \in Drafts
             /\ draft_states[ch].is_active
             /\ is_user_turn(draft_states[ch])
             /\ last'.op = "pick"
             /\ last'.ch = ch
             /\ ~Truthy(last'.position)) =>
                /\ last'.result \in {"PositionRequired", "PickNumberNotPositive",
                                     "NameRequired"}
                /\ draft_states' = draft_states]_vars
    /\ [][\A ch \in DOMAIN draft_states' :
            \A k \in 1..Len(draft_states'[ch].my_team) :
                draft_states'[ch].my_team[k][2] # None]_vars

(***************************************************************************)
(* DraftState.update_draft (SpecDraftState).                               *)
(***************************************************************************)
\* C9: update_draft appends the pick to my_team iff it was the user's turn
\* before picks_made was incremented.
C9_UpdateDraftUsesTurnBeforeIncrement ==
    [][\A ch \in Channels :
        (ch \in Drafts /\ last'.op = "update_draft" /\ last'.ch = ch) =>
            LET before == draft_states[ch]
                after == draft_states'[ch]
            IN  IF (before.picks_made % before.total_players) + 1 = before.pick_position
                THEN after.my_team = Append(before.my_team, <<last'.name, last'.position>>)
                ELSE after.my_team = before.my_team]_vars

\* C10: after every call of update_draft, current_round is
\* ((picks_made - 1) div total_players) + 1 for picks_made as the call left it.
C10_UpdateDraftRound ==
    \A ch \in Drafts :
        last.op = "update_draft" /\ last.ch = ch =>
            draft_states[ch].current_round =
                ((draft_states[ch].picks_made - 1) \div draft_states[ch].total_players) + 1

(***************************************************************************)
(* The draft command (start_draft).                                        *)
(***************************************************************************)
\* The program state a command can change.
ProgramState == <<draft_states, cached_players, last_fetch_time>>

\* The channel holds a draft that is running.
Running(ch) == ch \in Drafts /\ draft_states[ch].is_active

\* The step is a draft command on the channel.
DraftCommand(ch) == last'.op = "draft" /\ last'.ch = ch

\* C11: a draft command on a channel whose draft is active changes nothing
\* of that draft (nor of any other state) and issues no fetch, and when its
\* arguments reach start_draft it is answered with the already-active error.
C11_StartOnActiveDraftIsRefused ==
    [][\A ch \in Channels :
        (Running(ch) /\ DraftCommand(ch)) =>
            /\ ProgramState' = ProgramState
            /\ calls' = {}
            /\ \A rq \in ClockRequests, fetched \in FetchResultsOverTime :
                (/\ ~DraftParametersInvalid(rq[1], rq[2], rq[3])
                 /\ Draft(ch, rq[1], rq[2], rq[3], fetched)) =>
                    last'.result = "AlreadyActive"]_vars

\* C11 witness: a draft command has just been refused on a draft that is
\* active and has recorded a pick, one of them in my_team.
C11_Witness ==
    /\ last.op = "draft"
    /\ last.result = "AlreadyActive"
    /\ \E ch \in Drafts :
        /\ draft_states[ch].is_active
        /\ draft_states[ch].picks_made >= 1
        /\ draft_states[ch].my_team # <<>>
        /\ Len(draft_states[ch].available_players) < Len(Directory)

\* What the player directory yields to a request made now, a fetch of the
\* page returning fetched: the cached items while the cache is non-empty and
\* at most CacheTTL seconds old, the fetched items otherwise.
Yielded(fetched) ==
    IF cached_players # <<>> /\ now - last_fetch_time <= CacheTTL
    THEN cached_players
    ELSE fetched

\* C12: a draft command that reaches start_draft on a channel without a
\* running draft, the directory yielding no player, is answered with the
\* directory-unavailable error and leaves draft_states as it was: no draft
\* becomes active, and a completed draft of the channel stays as it ended.
C12_EmptyDirectoryStartsNothing ==
    [][\A ch \in Channels, rq \in ClockRequests, fetched \in FetchResultsOverTime :
        (/\ ~Running(ch)
         /\ DraftCommand(ch)
         /\ Yielded(fetched) = <<>>
         /\ ~DraftParametersInvalid(rq[1], rq[2], rq[3])
         /\ Draft(ch, rq[1], rq[2], rq[3], fetched)) =>
            /\ last'.result = "DirectoryUnavailable"
            /\ draft_states' = draft_states
            /\ ~(ch \in DOMAIN draft_states' /\ draft_states'[ch].is_active)]_vars

\* C12 witness: the directory has just been unavailable to a draft command,
\* the cache being too old and the fetch failing, on a channel that keeps
\* its completed draft.
C12_Witness ==
    /\ last.op = "draft"
    /\ last.result = "DirectoryUnavailable"
    /\ cached_players # <<>>
    /\ \E ch \in Drafts :
        /\ ~draft_states[ch].is_active
        /\ draft_states[ch].picks_made = TotalPicks(draft_states[ch])

\* No name occurs twice in the list.
NoDuplicates(xs) ==
    \A i, j \in 1..Len(xs) : i # j => xs[i] # xs[j]

\* The draft a successful start stores: the settings of the request, no pick
\* made, and the pool the names of the directory's items, one for one in the
\* directory's order.
FreshDraft(ds, rq, directory) ==
    /\ ds.total_rounds = rq[1]
    /\ ds.pick_position = rq[2]
    /\ ds.total_players = rq[3]
    /\ ds.is_active
    /\ ds.picks_made = 0
    /\ ds.current_round = 1
    /\ ds.drafted_players = <<>>
    /\ ds.my_team = <<>>
    /\ Len(ds.available_players) = Len(directory)
    /\ \A i \in 1..Len(directory) : ds.available_players[i] = directory[i][1]

\* C13: a draft command that succeeds stores for its channel a draft with
\* is_active true, picks_made 0, current_round 1, drafted_players and my_team
\* empty, and available_players the names of the directory in the directory's
\* order, none missing and none twice.
C13_StartedDraftIsFresh ==
    [][\A ch \in Channels, rq \in ClockRequests, fetched \in FetchResultsOverTime :
        (/\ DraftCommand(ch)
         /\ last'.result = "Started"
         /\ Draft(ch, rq[1], rq[2], rq[3], fetched)) =>
            /\ ch \in DOMAIN draft_states'
            /\ FreshDraft(draft_states'[ch], rq, Yielded(fetched))
            /\ NoDuplicates(draft_states'[ch].available_players)]_vars

\* C13 witness: a draft has just been started from a page fetched after the
\* ranking had moved.
C13_Witness ==
    /\ last.op = "draft"
    /\ last.result = "Started"
    /\ calls = {"fetch"}
    /\ \E ch \in Drafts :
        /\ draft_states[ch].is_active
        /\ draft_states[ch].picks_made = 0
        /\ draft_states[ch].available_players = <<CyDu, BoAl>>

\* C16: on a channel whose draft has completed, a draft command that reaches
\* start_draft while the directory yields players succeeds, and the draft it
\* stores is a fresh one: the request's settings, no pick made, nothing in
\* drafted_players or my_team, and the whole directory as its pool, whatever
\* the completed draft had recorded or removed.
C16_RestartAfterCompletion ==
    [][\A ch \in Channels, rq \in ClockRequests, fetched \in FetchResultsOverTime :
        (/\ ch \in Drafts
         /\ ~draft_states[ch].is_active
         /\ draft_states[ch].picks_made = TotalPicks(draft_states[ch])
         /\ DraftCommand(ch)
         /\ Yielded(fetched) # <<>>
         /\ ~DraftParametersInvalid(rq[1], rq[2], rq[3])
         /\ Draft(ch, rq[1], rq[2], rq[3], fetched)) =>
            /\ last'.result = "Started"
            /\ succeeded'[ch] = 0
            /\ draft_states'[ch] =
                    [total_rounds |-> rq[1],
                     pick_position |-> rq[2],
                     total_players |-> rq[3],
                     current_round |-> 1,
                     picks_made |-> 0,
                     drafted_players |-> <<>>,
                     my_team |-> <<>>,
                     available_players |->
                        [i \in 1..Len(Yielded(fetched)) |-> Yielded(fetched)[i][1]],
                     is_active |-> TRUE]]_vars

\* C16 witness: a draft has just been started from the cached directory,
\* which an earlier draft of the channel had fetched: that draft has
\* completed, and the new one has the whole directory as its pool.
C16_Witness ==
    /\ last.op = "draft"
    /\ last.result = "Started"
    /\ calls = {}
    /\ cached_players # <<>>
    /\ \E ch \in Drafts :
        /\ draft_states[ch].is_active
        /\ draft_states[ch].picks_made = 0
        /\ draft_states[ch].drafted_players = <<>>
        /\ Len(draft_states[ch].available_players) = Len(cached_players)

(***************************************************************************)
(* The pick command's refusals.                                            *)
(***************************************************************************)
\* C14: a pick command on a channel that has no draft, or whose draft has
\* completed, is answered with the no-active-draft error and changes no
\* state; a draft that is not active changes only by being replaced by a
\* draft command that succeeds.
C14_NoPickWithoutActiveDraft ==
    [][\A ch \in Channels :
        /\ (~Running(ch) /\ last'.op = "pick" /\ last'.ch = ch) =>
                /\ last'.result = "NoActiveDraft"
                /\ ProgramState' = ProgramState
                /\ succeeded' = succeeded
        /\ (/\ ch \in Drafts
            /\ ~draft_states[ch].is_active
            /\ draft_states'[ch] # draft_states[ch]) =>
                last'.op = "draft" /\ last'.ch = ch /\ last'.result = "Started"]_vars

\* C14 witness: a pick command has just been refused on a channel whose
\* draft has completed with a pick in my_team.
C14_Witness ==
    /\ last.op = "pick"
    /\ last.result = "NoActiveDraft"
    /\ \E ch \in Drafts :
        /\ last.ch = ch
        /\ ~draft_states[ch].is_active
        /\ draft_states[ch].picks_made = TotalPicks(draft_states[ch])
        /\ draft_states[ch].my_team # <<>>

\* The kinds of reply by which a pick command reports an error.
PickErrors ==
    {"NoActiveDraft", "PickNumberNotPositive", "NameRequired", "PositionRequired",
     "InvalidPosition"}

\* C15: a pick command that does not record a pick is answered with one of
\* the error messages (no active draft, pick number below 1, empty player
\* name, missing position on a user pick, unknown position token), and
\* leaves every field of every DraftState, available_players included, and
\* the directory cache unchanged.
C15_FailedPickChangesNothing ==
    [][(last'.op = "pick" /\ ~Succeeded(last'.result)) =>
            /\ last'.result \in PickErrors
            /\ ProgramState' = ProgramState
            /\ succeeded' = succeeded]_vars

\* C15 witness: a position token has just been refused on a draft that has
\* recorded a pick and taken a player from its pool.
C15_Witness ==
    /\ last.op = "pick"
    /\ last.result = "InvalidPosition"
    /\ \E ch \in Drafts :
        /\ last.ch = ch
        /\ draft_states[ch].is_active
        /\ draft_states[ch].picks_made >= 1
        /\ Len(draft_states[ch].available_players) < Len(cached_players)

(***************************************************************************)
(* The channels of the server (SpecIsolation).                             *)
(***************************************************************************)
\* C17: a command on one channel (draft, pick, getrec, myteam, players),
\* whatever its outcome, leaves every other channel as it was: without a
\* draft if it had none, and else with every field of its DraftState, the
\* pool included, unchanged.
C17_ChannelsAreIsolated ==
    [][\A b \in Channels :
        last'.ch # b =>
            /\ b \in DOMAIN draft_states' <=> b \in Drafts
            /\ b \in Drafts => draft_states'[b] = draft_states[b]
            /\ succeeded'[b] = succeeded[b]]_vars

\* C17 witness: a pick has just taken a player from the pool of one channel's
\* draft while another channel's running draft, seeded from the same cached
\* directory, still has its whole pool.
C17_Witness ==
    /\ last.op = "pick"
    /\ Succeeded(last.result)
    /\ \E a, b \in Drafts :
        /\ a # b
        /\ last.ch = a
        /\ draft_states[a].picks_made = 1
        /\ Len(draft_states[a].available_players) = Len(cached_players) - 1
        /\ draft_states[b].is_active
        /\ draft_states[b].picks_made = 0
        /\ Len(draft_states[b].available_players) = Len(cached_players)

(***************************************************************************)
(* The roster needs (SpecRoster).                                          *)
(***************************************************************************)
\* The number of entries of my_team assigned the position.
Assigned(ds, pos) == Cardinality({k \in 1..Len(ds.my_team) : ds.my_team[k][2] = pos})

\* The number of players a roster requires at the position.
Required(pos) == IF pos = UTIL THEN 3 ELSE 2

\* C18: for every my_team a sequence of picks can build, get_roster_needs
\* has an entry for each of PG, SG, SF, PF, C and UTIL and for nothing else,
\* the entry being the required number (2, 2, 2, 2, 2, 3) less the number of
\* my_team's entries assigned the position, or 0 if that is negative: no
\* entry is below 0.
C18_RosterNeedsAreFlooredAtZero ==
    \A ch \in Drafts :
        LET ds == draft_states[ch]
            needs == get_roster_needs(ds)
        IN  /\ DOMAIN needs = {PG, SG, SF, PF, C, UTIL}
            /\ \A pos \in DOMAIN needs :
                /\ needs[pos] >= 0
                /\ needs[pos] =
                        IF Required(pos) >= Assigned(ds, pos)
                        THEN Required(pos) - Assigned(ds, pos)
                        ELSE 0

\* C18 witness: the recommendation has just been asked for on a draft whose
\* my_team holds more players at a position than the roster requires.
C18_Witness ==
    /\ last.op = "getrec"
    /\ last.result = "Recommended"
    /\ \E ch \in Drafts :
        /\ Assigned(draft_states[ch], PG) = 3
        /\ get_roster_needs(draft_states[ch])[PG] = 0
        /\ get_roster_needs(draft_states[ch])[UTIL] = 3

(***************************************************************************)
(* The comparison of players (SpecCompare).                                *)
(***************************************************************************)
\* C19: a comparison asked for with fewer than 2 names is answered with the
\* insufficient-players message, fetches no directory, searches nothing,
\* asks the language model nothing and leaves the directory cache as it was.
C19_TooFewPlayersDoesNothing ==
    [][\A players \in {p \in CompareRequests : Len(p) < 2}, fetched \in FetchResults :
        \A searches \in [1..Len(players) -> SearchOutcomes] :
            Compare(players, fetched, searches) =>
                /\ last'.result = "InsufficientPlayers"
                /\ calls' = {}
                /\ cached_players' = cached_players
                /\ last_fetch_time' = last_fetch_time
                /\ ranking' = ranking]_vars

\* C19 witness: a comparison has just been refused while the cache was empty
\* and had never been filled, so that going on would have fetched the page.
C19_Witness ==
    /\ last.op = "compare"
    /\ last.result = "InsufficientPlayers"
    /\ calls = {}
    /\ cached_players = <<>>
    /\ last_fetch_time = 0

\* C20: in the final ranking of a comparison, every player flagged
\* Season-Ending stands after every player not flagged Season-Ending.
C20_SeasonEndingIsRankedLast ==
    \A i, j \in 1..Len(ranking) :
        (/\ ranking[i].injury_status = "Season-Ending"
         /\ ranking[j].injury_status # "Season-Ending") => j < i

(***************************************************************************)
(* MistralAgent._split_into_messages                                       *)
(***************************************************************************)
\* str.split(sep) with a separator of one character: the pieces between the
\* separators, empty pieces included.
SplitOn(s, sep) ==
    LET at == {i \in 1..Len(s) : s[i] = sep}
        n == Cardinality(at)
        pos(k) == IF k = 0 THEN 0
                  ELSE IF k = n + 1 THEN Len(s) + 1
                  ELSE CHOOSE i \in at : Cardinality({j \in at : j < i}) = k - 1
    IN  [k \in 1..(n + 1) |-> SubSeq(s, pos(k - 1) + 1, pos(k) - 1)]

RECURSIVE SplitLoop(_, _, _, _)
\* The loop over the lines of the content and the statements after it: sent
\* is the list responses built so far.
SplitLoop(lines, chunk_size, sent, current_chunk) ==
    IF lines = <<>>
    THEN IF current_chunk # <<>> THEN Append(sent, current_chunk) ELSE sent
    ELSE LET line == Head(lines)
         IN  IF Len(current_chunk) + Len(line) + 1 > chunk_size
             THEN SplitLoop(Tail(lines), chunk_size, Append(sent, current_chunk), line)
             ELSE SplitLoop(Tail(lines), chunk_size, sent,
                            (IF current_chunk # <<>> THEN current_chunk \o <<"\n">>
                             ELSE current_chunk) \o line)

\* MistralAgent._split_into_messages(content, chunk_size)
split_into_messages(content, chunk_size) ==
    SplitLoop(SplitOn(content, "\n"), chunk_size, <<>>, <<>>)

\* The default of chunk_size, which every caller uses.
ChunkSize == 1900

\* The texts handed to the splitter have at most MaxLines lines.
MaxLines == 3

\* The lengths of their lines: empty, about half a chunk, a chunk to the
\* character and one more.
LineLengths == {0, 949, 950, 1900, 1901}

\* A line of n characters.
LineOf(n) == [i \in 1..n |-> "a"]

RECURSIVE JoinLines(_)
\* '\n'.join(lines)
JoinLines(lines) ==
    IF lines = <<>> THEN <<>>
    ELSE IF Len(lines) = 1 THEN lines[1]
    ELSE lines[1] \o <<"\n">> \o JoinLines(Tail(lines))

\* The texts handed to the splitter.
Contents ==
    {JoinLines([k \in 1..Len(lengths) |-> LineOf(lengths[k])]) :
        lengths \in UNION {[1..n -> LineLengths] : n \in 1..MaxLines}}

\* _split_into_messages, tabulated once over the texts of the model.
Messages == [content \in Contents |-> split_into_messages(content, ChunkSize)]

\* A reply is split for sending: the last statement of
\* get_draft_recommendation, show_players and show_my_team.
SplitIntoMessages(content) ==
    /\ responses' = Messages[content]
    /\ last' = Command("split", 0, <<>>, None, "None")
    /\ calls' = {}
    /\ UNCHANGED <<draft_states, cached_players, last_fetch_time, now, succeeded,
                   ranking, channel_history, appended, starting, resolved, chatting>>

\* Replies split one after the other.
NextSplit == \E content \in Contents : SplitIntoMessages(content)

SpecSplit == Init /\ [][NextSplit]_vars

(***************************************************************************)
(* The replies that are split (SpecSplit).                                 *)
(***************************************************************************)
\* C21: every chunk the splitter returns has at most 1900 characters,
\* whatever the text, a text with a line of more than 1900 characters
\* included.
C21_ChunksWithinLimit ==
    \A i \in 1..Len(responses) : Len(responses[i]) <= ChunkSize

(***************************************************************************)
(* MistralAgent.get_player_news, and the commands that read the cache      *)
(***************************************************************************)
\* The record of a call of _find_player_match: the results seen so far for
\* the query and the directory of the call, with this one added, and whether
\* the call was made before.
Resolved(seen, search_name, players_map, match) ==
    LET call == <<search_name, players_map>>
    IN  [c \in DOMAIN seen \cup {call} |->
            IF c # call THEN seen[c]
            ELSE IF c \in DOMAIN seen
                 THEN [matches |-> seen[c].matches \cup {match}, repeated |-> TRUE]
                 ELSE [matches |-> {match}, repeated |-> FALSE]]

\* The command !news: bot.news and MistralAgent.get_player_news.  The name is
\* resolved against the directory; known tells whether ESPN_PLAYER_IDS has an
\* entry for the resolved name, whose page is then read.
News(player_name, fetched, known) ==
    LET players == GetPlayersResult(FALSE, fetched)
        match == Resolution[player_name, players]
        name == IF match # None THEN match[1] ELSE player_name
    IN  /\ GetPlayersEffect(FALSE, fetched)
        /\ calls' = GetPlayersCalls(FALSE) \cup (IF known THEN {"page"} ELSE {})
        /\ resolved' = Resolved(resolved, player_name, players, match)
        /\ last' = Command("news", 0, name, None, IF known THEN "News" ELSE "NoEspnId")
        /\ UNCHANGED <<draft_states, now, succeeded, ranking, responses,
                       channel_history, appended, starting, chatting>>

\* The commands of the specification SpecCache.
CacheRequests == {<<1, 1, 2>>}
CacheCompared == {<<Cy>>, <<Cy, BoTyped>>}
CacheSearches == [season_ending_result |-> FitText, injury_result |-> FitText]

\* Every command that reads the directory, while time passes and the ranking
\* page changes or fails.
NextCache ==
    \/ \E ch \in SpecChannels :
        \/ \E rq \in CacheRequests, fetched \in FetchResultsOverTime :
                Draft(ch, rq[1], rq[2], rq[3], fetched)
        \/ /\ HasActiveDraft(ch)
           /\ Pick(ch, (draft_states[ch].picks_made % 2) + 1, Bo, << <<"p","g">> >>)
        \/ \E fetched \in FetchResultsOverTime : Players(ch, fetched)
        \/ \E fetched \in FetchResultsOverTime : MyTeam(ch, fetched)
    \/ \E fetched \in FetchResultsOverTime, known \in BOOLEAN : News(Cy, fetched, known)
    \/ \E players \in CacheCompared, fetched \in FetchResultsOverTime :
            Compare(players, fetched, [k \in 1..Len(players) |-> CacheSearches])
    \/ \E seconds \in {CacheTTL, CacheTTL + 1} : Tick(seconds)

SpecCache == Init /\ [][NextCache]_vars

(***************************************************************************)
(* The directory cache (SpecCache).                                        *)
(***************************************************************************)
\* The cache holds a directory that is at most an hour old.
WithinFreshness ==
    cached_players # <<>> /\ (now - last_fetch_time) <= CacheTTL

\* The commands that read the directory.
DirectoryReaders == {"draft", "players", "myteam", "news", "compare"}

C27_FailedFetchKeepsTheCache ==
    [][/\ cached_players # <<>> => cached_players' # <<>>
       /\ last_fetch_time' # last_fetch_time => cached_players' # <<>>]_vars

(***************************************************************************)
(* MistralAgent.start_draft, suspended at "await self._get_players()"      *)
(*                                                                         *)
(* Every command runs in a task of its own: while start_draft waits for    *)
(* the ranking page, other commands are handled.  _get_players only waits  *)
(* when it fetches; with a fresh cache start_draft runs to its end.        *)
(***************************************************************************)
\* At most MaxStarting calls of start_draft wait for the page at a time.
MaxStarting == 2

\* A call of start_draft that waits: its arguments, from which its
\* DraftState was built, and the current_time _get_players read.
StartingCall(ch, rounds, pick_position, total_picks) ==
    [channel_id |-> ch, total_rounds |-> rounds, pick_position |-> pick_position,
     total_players |-> total_picks, current_time |-> now]

\* The command !draft up to the point where _get_players waits for the
\* ranking page, and to its end when it does not wait.
StartDraftCall(ch, rounds, pick_position, total_picks) ==
    IF \/ DraftParametersInvalid(rounds, pick_position, total_picks)
       \/ HasActiveDraft(ch)
       \/ CacheIsFresh(FALSE)
    THEN Draft(ch, rounds, pick_position, total_picks, <<>>)
    ELSE /\ Len(starting) < MaxStarting
         /\ starting' = Append(starting,
                               StartingCall(ch, rounds, pick_position, total_picks))
         /\ calls' = {"fetch"}
         /\ last' = Command("draft", ch, <<>>, None, "Waiting")
         /\ UNCHANGED <<draft_states, cached_players, last_fetch_time, now, succeeded,
                        ranking, responses, channel_history, appended, resolved, chatting>>

\* The page arrives for the i-th waiting call: _get_players stores a page
\* that is not empty, and start_draft goes on from its await to its end.
StartDraftResume(i, fetched) ==
    LET call == starting[i]
        draft_state ==
            [NewDraftState(call.total_rounds, call.pick_position, call.total_players)
                EXCEPT !.available_players = Names(fetched)]
    IN  /\ starting' = SubSeq(starting, 1, i - 1) \o SubSeq(starting, i + 1, Len(starting))
        /\ IF fetched # <<>>
           THEN /\ cached_players' = fetched
                /\ last_fetch_time' = call.current_time
           ELSE UNCHANGED <<cached_players, last_fetch_time>>
        /\ calls' = {}
        /\ IF draft_state.available_players = <<>>
           THEN /\ last' = Command("draft", call.channel_id, <<>>, None,
                                   "DirectoryUnavailable")
                /\ UNCHANGED <<draft_states, succeeded>>
           ELSE /\ draft_states' = Store(draft_states, call.channel_id,
                                         [draft_state EXCEPT !.is_active = TRUE])
                /\ succeeded' = [succeeded EXCEPT ![call.channel_id] = 0]
                /\ last' = Command("draft", call.channel_id, <<>>, None, "Started")
        /\ UNCHANGED <<now, ranking, responses, channel_history, appended, resolved,
                       chatting>>

\* The draft requests of the specification SpecInterleaved.
InterleavedRequests == {<<1, 1, 2>>, <<1, 2, 2>>}

\* Draft commands that overlap, picks recorded in between, and time passing.
NextInterleaved ==
    \/ \E ch \in SpecChannels :
        \/ \E rq \in InterleavedRequests : StartDraftCall(ch, rq[1], rq[2], rq[3])
        \/ /\ HasActiveDraft(ch)
           /\ Pick(ch, (draft_states[ch].picks_made % 2) + 1, Bo, << <<"p","g">> >>)
    \/ \E i \in 1..Len(starting), fetched \in FetchResultsOverTime :
            StartDraftResume(i, fetched)
    \/ \E seconds \in {CacheTTL, CacheTTL + 1} : Tick(seconds)

SpecInterleaved == Init /\ [][NextInterleaved]_vars

(***************************************************************************)
(* Draft commands that overlap (SpecInterleaved).                          *)
(***************************************************************************)
\* C25: when draft commands for a channel overlap at the fetch of the
\* directory, the active draft one of them stored is not overwritten by
\* another: a draft command that ends while the channel's draft is active
\* leaves that draft and its picks as they are and does not report success.
C25_ActiveDraftIsNotOverwritten ==
    [][\A ch \in Channels :
        (Running(ch) /\ DraftCommand(ch)) =>
            /\ draft_states'[ch] = draft_states[ch]
            /\ last'.result # "Started"]_vars

\* The names asked about in the specification SpecResolve: one that the
\* directory resolves and one that it does not.
ResolveNames == {Cy, Xx}

\* Names resolved again and again, while time passes and the ranking page
\* changes or fails.
NextResolve ==
    \/ \E player_name \in ResolveNames, fetched \in FetchResultsOverTime :
            News(player_name, fetched, FALSE)
    \/ \E seconds \in {CacheTTL, CacheTTL + 1} : Tick(seconds)

SpecResolve == Init /\ [][NextResolve]_vars

LeBronJames == <<"L","e","B","r","o","n"," ","J","a","m","e","s">>
LeBo == <<"L","e"," ","B","o">>
Stars ==
    << <<CyDu, [RANK |-> <<"1">>]>>,
       <<LeBronJames, [RANK |-> <<"2">>]>>,
       <<LeBo, [RANK |-> <<"3">>]>> >>

\* The directories names are resolved against.
MatchPages == {Directory, Reranked, Stars}

\* The names that are resolved: in lower case, capitalised, in capitals,
\* written together, with a blank around or inside, with punctuation, empty.
MatchQueries ==
    {<<"l","e","b","r","o","n">>, <<"L","e","B","r","o","n">>,
     <<"L","E","B","R","O","N">>, <<"l","e">>, <<"L","e">>, <<"j","a","m","e","s">>,
     <<"b","r","o","n">>, <<"l","e","b","r","o","n","j","a","m","e","s">>,
     <<"L","e","B","r","o","n","J","a","m","e","s">>, <<"l","e","b","o">>,
     <<"b","o">>, <<"B","o">>, <<"B","O">>, <<"b","O">>, <<" ","b","o"," ">>,
     <<"b","o","!">>, <<"c","y">>, <<"C","y">>, <<"C","Y">>, <<"d","u">>,
     <<"c","y","d","u">>, <<"C","y","D","u">>, <<"D","u","C","y">>,
     <<"b","o","a","l">>, <<"B","o","A","l">>, <<"B","o","A">>, <<"a","l">>,
     <<"A","l","B","o">>, <<"o">>, <<"u">>, <<"x">>, <<"!">>, <<>>,
     <<"b","o"," ","a","l">>, <<"B","o"," ","A","l">>, <<"c","y"," ","d","u">>,
     <<"d","u"," ","c","y">>, <<"l","e"," ","b","o">>}

\* _find_player_match, tabulated once over these names and directories.
MatchOf ==
    [search_name \in MatchQueries, players_map \in MatchPages |->
        find_player_match(search_name, players_map)]

\* The agent with a ranking page in its cache, fetched just now.
InitMatch ==
    /\ draft_states = <<>>
    /\ cached_players \in MatchPages
    /\ last_fetch_time = CacheTTL + 1
    /\ now = CacheTTL + 1
    /\ succeeded = [ch \in Channels |-> 0]
    /\ last = Command("init", 0, <<>>, None, None)
    /\ calls = {}
    /\ ranking = <<>>
    /\ responses = <<>>
    /\ channel_history = <<>>
    /\ appended = [ch \in Channels |-> <<>>]
    /\ starting = <<>>
    /\ resolved = <<>>
    /\ chatting = <<>>

\* A call of _find_player_match(search_name, self.cached_players), as
\* compare_players makes it: the reply is the name of the match, or None.
Match(search_name) ==
    LET match == MatchOf[search_name, cached_players]
    IN  /\ last' = Command("match", 0, search_name, None,
                           IF match = None THEN None ELSE match[1])
        /\ calls' = {}
        /\ UNCHANGED <<draft_states, cached_players, last_fetch_time, now, succeeded,
                       ranking, other_vars>>

\* Names resolved one after the other against the cached page.
NextMatch == \E search_name \in MatchQueries : Match(search_name)

SpecMatch == InitMatch /\ [][NextMatch]_vars

(***************************************************************************)
(* The precedence of the matching rules (SpecMatch).                       *)
(***************************************************************************)
\* The name without case and punctuation, and with its blanks removed too.
Normalized(name) == normalize_name(name)
SpaceStripped(name) == Concat(Split(normalize_name(name)))

\* The entries of the directory, in ranking order, that equal the query once
\* both are normalized, and those whose space-stripped name contains it.
ExactEntries(query, names) ==
    {i \in 1..Len(names) : Normalized(names[i]) = Normalized(query)}
ContainingEntries(query, names) ==
    {i \in 1..Len(names) : IsSubstr(SpaceStripped(query), SpaceStripped(names[i]))}

\* C24: "lebron" resolves to "LeBron James" in a directory that contains
\* it; an entry that equals the query once both are normalized wins over
\* every other match, wherever it stands in the directory; and a query of
\* one token that equals no entry resolves, when it resolves, to the first
\* entry in ranking order whose space-stripped name contains it.
C24_ExactThenFirstContaining ==
    last.op = "match" =>
        LET query == last.name
            names == Names(cached_players)
            exact == ExactEntries(query, names)
            containing == ContainingEntries(query, names)
        IN  /\ (query = <<"l","e","b","r","o","n">> /\ InList(LeBronJames, names)) =>
                    last.result = LeBronJames
            /\ exact # {} => \E i \in exact : last.result = names[i]
            /\ (Len(Split(query)) = 1 /\ exact = {} /\ last.result # None) =>
                    /\ containing # {}
                    /\ last.result = names[CHOOSE i \in containing :
                                                \A k \in containing : i <= k]

(***************************************************************************)
(* The size of a draft.                                                    *)
(***************************************************************************)
\* C26: in every state of a draft, picks_made is at most total_rounds times
\* total_players and my_team has at most total_rounds players.
C26_PicksWithinTheDraft ==
    \A ch \in Drafts :
        /\ draft_states[ch].picks_made <= TotalPicks(draft_states[ch])
        /\ Len(draft_states[ch].my_team) <= draft_states[ch].total_rounds

\* C26 witness: a draft of more than one round has just recorded its last
\* pick, and the user has one player for every round.
C26_Witness ==
    /\ last.op = "pick"
    /\ last.result = "DraftComplete"
    /\ \E ch \in Drafts :
        /\ draft_states[ch].total_rounds > 1
        /\ draft_states[ch].picks_made = TotalPicks(draft_states[ch])
        /\ Len(draft_states[ch].my_team) = draft_states[ch].total_rounds

(***************************************************************************)
(* MistralAgent.get_draft_recommendation: the picks until the user's turn  *)
(***************************************************************************)
\* Mutant of picks_until_turn: the distance is always taken around the end
\* of the round.
PicksUntilTurnAroundTheRound(ds) ==
    LET current_pick == (ds.picks_made % ds.total_players) + 1
    IN  (ds.total_players - current_pick) + ds.pick_position

\* "Calculate picks until next turn"
picks_until_turn(ds) ==
    LET current_pick == (ds.picks_made % ds.total_players) + 1
    IN  IF current_pick <= ds.pick_position
        THEN ds.pick_position - current_pick
        ELSE (ds.total_players - current_pick) + ds.pick_position

\* The draft requests of the specification SpecTurn: two rounds of
\* MaxPlayers teams, the user at any position, and one round of two teams.
TurnRequests == {<<2, p, MaxPlayers>> : p \in 1..MaxPlayers} \cup {<<1, 2, 2>>}
TurnNames == {Bo, <<"c","y">>}

\* Drafts in which every pick is numbered with its slot of the round, and
\* the recommendation is asked for at any time.
NextTurn ==
    \E ch \in SpecChannels :
        \/ \E rq \in TurnRequests, fetched \in FetchResults :
                Draft(ch, rq[1], rq[2], rq[3], fetched)
        \/ /\ HasActiveDraft(ch)
           /\ \E player_name \in TurnNames :
                Pick(ch, (draft_states[ch].picks_made % draft_states[ch].total_players) + 1,
                     player_name, << <<"p","g">> >>)
        \/ GetRec(ch)

SpecTurn == Init /\ [][NextTurn]_vars

(***************************************************************************)
(* The recommendation (SpecTurn).                                          *)
(***************************************************************************)
\* C28: the picks until the user's turn that a recommendation computes lie
\* in 0..total_players-1, equal (pick_position - current_pick) modulo
\* total_players with current_pick = (picks_made mod total_players) + 1,
\* and are 0 exactly when is_user_turn() holds.
C28_PicksUntilTurn ==
    [][\A ch \in Channels :
        (last'.op = "getrec" /\ last'.ch = ch /\ last'.result = "Recommended") =>
            LET ds == draft_states[ch]
                current_pick == (ds.picks_made % ds.total_players) + 1
            IN  /\ picks_until_turn(ds) \in 0..(ds.total_players - 1)
                /\ picks_until_turn(ds)
                        = (ds.pick_position - current_pick) % ds.total_players
                /\ picks_until_turn(ds) = 0 <=> is_user_turn(ds)]_vars

\* C28 witness: a recommendation has just been given in the second round
\* of a draft, to a user whose slot of the round has passed and whose next
\* turn is more than one pick away.
C28_Witness ==
    /\ last.op = "getrec"
    /\ last.result = "Recommended"
    /\ \E ch \in Drafts :
        LET ds == draft_states[ch]
        IN  /\ ds.is_active
            /\ ds.picks_made >= ds.total_players
            /\ (ds.picks_made % ds.total_players) + 1 > ds.pick_position
            /\ picks_until_turn(ds) > 1

(***************************************************************************)
(* The read commands (SpecIsolation).                                      *)
(***************************************************************************)
\* C29: the commands getrec, myteam and players, answered or refused, leave
\* every field of every DraftState as it was.
C29_ReadCommandsKeepTheDrafts ==
    [][last'.op \in {"getrec", "myteam", "players"} =>
            draft_states' = draft_states]_vars

\* C29 witness: the pool has just been shown in a channel whose draft is
\* running, has recorded a pick for the user and has lost a player from its
\* pool, while the other channel has no draft.
C29_Witness ==
    /\ last.op = "players"
    /\ last.result = "Shown"
    /\ last.ch \in Drafts
    /\ draft_states[last.ch].is_active
    /\ draft_states[last.ch].my_team # <<>>
    /\ Len(draft_states[last.ch].available_players) < Len(cached_players)
    /\ Drafts # Channels

(***************************************************************************)
(* MistralAgent.run and MistralAgent._update_history                       *)
(***************************************************************************)
MAX_HISTORY == 10

\* At most MaxRuns chat messages are sent on the server, and at most
\* MaxChatting of them wait for their answer at the same time.
MaxRuns == 7
MaxChatting == 2

\* self.channel_history[channel_id], a defaultdict(list).
History(channel_history_, channel_id) ==
    IF channel_id \in DOMAIN channel_history_ THEN channel_history_[channel_id] ELSE <<>>

\* Mutant of update_history: the first MAX_HISTORY messages are kept.
UpdateHistoryKeepsTheFirst(history, role, content) ==
    LET longer == Append(history, [role |-> role, content |-> content])
    IN  IF Len(longer) > MAX_HISTORY THEN SubSeq(longer, 1, MAX_HISTORY) ELSE longer

\* MistralAgent._update_history, on the list of one channel.
update_history(history, role, content) ==
    LET longer == Append(history, [role |-> role, content |-> content])
    IN  IF Len(longer) > MAX_HISTORY
        THEN SubSeq(longer, Len(longer) - MAX_HISTORY + 1, Len(longer))
        ELSE longer

\* The messages of the users and the answer of the language model.
ChatContents == {<<"h","i">>, <<"y","o">>}
ChatAnswer == <<"o","k">>

\* The chat messages sent so far: answered ones and waiting ones.
Runs ==
    LET RECURSIVE Answered(_)
        Answered(chs) ==
            IF chs = {} THEN 0
            ELSE LET ch == CHOOSE c \in chs : TRUE
                 IN  Len(appended[ch]) \div 2 + Answered(chs \ {ch})
    IN  Answered(Channels) + Len(chatting)

\* MistralAgent.run up to its await: the history of the channel is read,
\* which makes the defaultdict create the channel's list, and the
\* completion is asked for.
RunCall(ch, content) ==
    /\ Runs < MaxRuns
    /\ Len(chatting) < MaxChatting
    /\ channel_history' =
            [c \in DOMAIN channel_history \cup {ch} |-> History(channel_history, c)]
    /\ chatting' = Append(chatting, [channel_id |-> ch, content |-> content])
    /\ calls' = {"chat"}
    /\ last' = Command("chat", ch, <<>>, None, "Waiting")
    /\ UNCHANGED <<draft_states, cached_players, last_fetch_time, now, succeeded,
                   ranking, responses, appended, starting, resolved>>

\* MistralAgent.run after its await: the answer of the i-th waiting call
\* has come, and the message and the answer are appended, one right after
\* the other.
RunResume(i, response_content) ==
    LET call == chatting[i]
        ch == call.channel_id
        with_user == update_history(History(channel_history, ch), "user", call.content)
        with_both == update_history(with_user, "assistant", response_content)
    IN  /\ chatting' = SubSeq(chatting, 1, i - 1) \o SubSeq(chatting, i + 1, Len(chatting))
        /\ channel_history' =
                [c \in DOMAIN channel_history \cup {ch} |->
                    IF c = ch THEN with_both ELSE channel_history[c]]
        /\ appended' =
                [appended EXCEPT
                    ![ch] = @ \o <<[role |-> "user", content |-> call.content],
                                   [role |-> "assistant", content |-> response_content]>>]
        /\ calls' = {}
        /\ last' = Command("chat", ch, <<>>, None, "Answered")
        /\ UNCHANGED <<draft_states, cached_players, last_fetch_time, now, succeeded,
                       ranking, responses, starting, resolved>>

\* Chat messages on every channel of the server, whose answers come in any
\* order.
NextChat ==
    \/ \E ch \in Channels, content \in ChatContents : RunCall(ch, content)
    \/ \E i \in 1..Len(chatting) : RunResume(i, ChatAnswer)

SpecChat == Init /\ [][NextChat]_vars

(***************************************************************************)
(* The conversation history (SpecChat).                                    *)
(***************************************************************************)
\* The last n items of a list, or all of them when it has fewer.
LastOf(xs, n) == IF Len(xs) > n THEN SubSeq(xs, Len(xs) - n + 1, Len(xs)) ELSE xs

\* C30: after every chat message the history of each channel has at most
\* MAX_HISTORY (10) entries, which are the last entries appended for that
\* channel, in the order they were appended; and the histories of the other
\* channels are as they were.
C30_HistoryIsTheLastTen ==
    [][/\ \A ch \in Channels :
            /\ Len(History(channel_history', ch)) <= MAX_HISTORY
            /\ History(channel_history', ch) = LastOf(appended'[ch], MAX_HISTORY)
       /\ \A b \in Channels :
            last'.ch # b =>
                History(channel_history', b) = History(channel_history, b)]_vars

\* C30 witness: a channel has been sent more messages than its history
\* holds, the oldest are gone, and the other channel still has the two
\* entries of its only message.
C30_Witness ==
    /\ last.op = "chat"
    /\ last.result = "Answered"
    /\ \E a, b \in Channels :
        /\ last.ch = a
        /\ Len(appended[a]) > MAX_HISTORY
        /\ Len(History(channel_history, a)) = MAX_HISTORY
        /\ History(channel_history, a)[1] # appended[a][1]
        /\ Len(History(channel_history, b)) = 2

=============================================================================
